---- MODULE Spec2Model ----
(***************************************************************************)
(* Pi-hole Autoblocker: the quarantine / promotion cycle of               *)
(* src/pihole_autoblocker.py (main and the functions it calls).           *)
(*                                                                         *)
(* Strings are sequences of one-character strings, so that lower(),       *)
(* rstrip('.'), endswith(), `in` and split('.') are computed as Python    *)
(* computes them.  Scores are exact rationals [num, den].  Time is in     *)
(* seconds, as returned by now_ts().                                       *)
(***************************************************************************)
EXTENDS Integers, Sequences, FiniteSets, TLC

(* ---------------------------------------------------------------------- *)
(* Strings                                                                 *)
(* ---------------------------------------------------------------------- *)

\* str.lower() on one character (the upper-case letters the inputs use)
LowerChar(c) ==
    CASE c = "A" -> "a"
      [] c = "D" -> "d"
      [] c = "S" -> "s"
      [] OTHER   -> c

\* str.lower()
Lower(s) == [i \in 1..Len(s) |-> LowerChar(s[i])]

\* str.rstrip(ch)
RECURSIVE RStrip(_, _)
RStrip(s, ch) ==
    IF Len(s) > 0 /\ s[Len(s)] = ch THEN RStrip(SubSeq(s, 1, Len(s) - 1), ch) ELSE s

\* str.lstrip(ch)
RECURSIVE LStrip(_, _)
LStrip(s, ch) ==
    IF Len(s) > 0 /\ s[1] = ch THEN LStrip(Tail(s), ch) ELSE s

\* str.strip(ch)
Strip(s, ch) == LStrip(RStrip(s, ch), ch)

\* str.endswith(suf)
EndsWith(s, suf) ==
    /\ Len(suf) <= Len(s)
    /\ SubSeq(s, Len(s) - Len(suf) + 1, Len(s)) = suf

\* str.startswith(pre)
StartsWith(s, pre) ==
    /\ Len(pre) <= Len(s)
    /\ SubSeq(s, 1, Len(pre)) = pre

\* `sub in s`
Contains(s, sub) ==
    \E i \in 0..(Len(s) - Len(sub)) : SubSeq(s, i + 1, i + Len(sub)) = sub

\* str.split('.'): the sequence of labels (empty labels included)
RECURSIVE SplitDot(_, _, _)
SplitDot(s, cur, acc) ==
    IF s = <<>> THEN Append(acc, cur)
    ELSE IF Head(s) = "." THEN SplitDot(Tail(s), <<>>, Append(acc, cur))
    ELSE SplitDot(Tail(s), Append(cur, Head(s)), acc)

Split(s) == SplitDot(s, <<>>, <<>>)

\* ".".join(parts[-2:]) if len(parts) >= 2 else d
ETld1(d) ==
    LET parts == Split(Strip(Lower(d), "."))
        n     == Len(parts)
    IN  IF n >= 2 THEN parts[n - 1] \o <<".">> \o parts[n] ELSE d

\* domain.lower().rstrip('.'): lowercase, no trailing dot
Normalized(d) == RStrip(Lower(d), ".")

\* domain_suffix_in_list(domain, suffixes)
CleanSuffix(s) == LStrip(Strip(Lower(s), " "), "*")

domain_suffix_in_list(domain, suffixes) ==
    LET d == RStrip(Lower(domain), ".")
    IN  \E i \in 1..Len(suffixes) :
            LET s == CleanSuffix(suffixes[i])
            IN  /\ s # <<>>
                /\ \/ d = s
                   \/ EndsWith(d, <<".">> \o s)
                   \/ EndsWith(d, s)

(* ---------------------------------------------------------------------- *)
(* Configuration (config.yml) and the collaborators' fixed data            *)
(* ---------------------------------------------------------------------- *)

\* the observed domain names (keys of the metrics mapping)
ads_xy    == <<"a","d","s",".","x","y">>
ads_ok_cc == <<"a","d","s",".","o","k",".","c","c">>

Domains == {ads_xy, ads_ok_cc}

\* ads.xy as a client can spell it in a query: upper case, trailing dot
ADS_xy_dot == <<"A","D","S",".","x","y",".">>

\* the order in which counts.items() yields the domains
DomainOrder == <<ads_xy, ads_ok_cc, ADS_xy_dot>>

\* CFG["allowlist"], CFG["suspicious_substrings"], CFG["suspicious_tlds"]
allowlist             == << <<"o","k",".","c","c">> >>
suspicious_substrings == << <<"a","d","s">> >>
suspicious_tlds       == << <<"x","y">> >>
learn_stopwords       == {<<"w","w","w">>}

\* CFG numbers, read in main() and the helpers
min_hits                == 10
min_unique              == 2
min_hours_active        == 0
q_hours                 == 12
lookback                == 24
top_n_cname             == 200
cname_max_depth         == 2
cname_cache_ttl_hours   == 24
learn_refresh_hours     == 24
learn_min_support_etlds == 2
learn_max_keywords      == 200
family_adlist_threshold == 2
score_hits_k            == 20
score_uniq_k            == 3
score_hours_k           == 6
\* promotion_min_score = 0.90 as the rational PromoMinNum / PromoMinDen
PromoMinNum             == 90
PromoMinDen             == 100
auto_learn_keywords     == TRUE
SecondsPerHour          == 3600

\* the gravity table: rows (domain, adlist_id)
GravityRows ==
    << << <<"a","d","s",".","a">> \o <<".","i","o">>, 1 >>,
       << <<"a","d","s",".","b">> \o <<".","i","o">>, 1 >>,
       << <<"t",".","b">>         \o <<".","i","o">>, 2 >> >>

GravityDomains == {GravityRows[i][1] : i \in 1..Len(GravityRows)}

\* build_reputation_families(cfg)
build_reputation_families ==
    IF family_adlist_threshold <= 0 THEN {}
    ELSE LET root(dom) == ETld1(dom)
             roots     == {root(GravityRows[i][1]) : i \in 1..Len(GravityRows)}
             lists(r)  == {GravityRows[i][2] : i \in {j \in 1..Len(GravityRows) :
                                                        root(GravityRows[j][1]) = r}}
         IN  {r \in roots : Cardinality(lists(r)) >= family_adlist_threshold}

(* ---------------------------------------------------------------------- *)
(* Heuristics                                                              *)
(* ---------------------------------------------------------------------- *)

Tag(kind, val) == <<kind, val>>

\* the static-substring loop: the first ss with `ss and ss.lower() in d`
RECURSIVE FirstMatch(_, _, _)
FirstMatch(seq, d, kind) ==
    IF seq = <<>> THEN <<>>
    ELSE IF Head(seq) # <<>> /\ Contains(d, Lower(Head(seq)))
         THEN <<Tag(kind, Head(seq))>>
         ELSE FirstMatch(Tail(seq), d, kind)

\* the learned-keyword loop: LEARNED is iterated in the set's order lseq
RECURSIVE FirstLearned(_, _)
FirstLearned(lseq, d) ==
    IF lseq = <<>> THEN <<>>
    ELSE IF Contains(d, Head(lseq)) THEN <<Tag("learn", Head(lseq))>>
         ELSE FirstLearned(Tail(lseq), d)

\* substr_or_tld_suspicious(domain, cfg) -> [sus, reasons]
substr_or_tld_suspicious(domain, lseq, FAMS) ==
    LET d == Lower(domain)
    IN  IF domain_suffix_in_list(d, allowlist)
        THEN [sus |-> FALSE, reasons |-> <<Tag("allowlist", <<>>)>>]
        ELSE LET r1 == FirstMatch(suspicious_substrings, d, "substr")
                 r2 == FirstLearned(lseq, d)
                 r3 == IF domain_suffix_in_list(d, suspicious_tlds)
                       THEN <<Tag("tld", <<>>)>> ELSE <<>>
                 e  == ETld1(d)
                 r4 == IF e \in FAMS THEN <<Tag("fam", e)>> ELSE <<>>
                 rs == r1 \o r2 \o r3 \o r4
             IN  [sus |-> Len(rs) > 0, reasons |-> rs]

\* the DNS answers dig can give: name -> first CNAME target, <<>> when the
\* answer is empty or the lookup fails or times out (both end the chain)
Names == Domains

NoCname == [n \in Names |-> <<>>]
Cloaked == [n \in Names |-> IF n = ads_ok_cc THEN ads_xy ELSE <<>>]

DnsWorlds == {NoCname, Cloaked}

DigFirstLine(dig, name) == IF name \in DOMAIN dig THEN dig[name] ELSE <<>>

\* what a lookup that raises (dig missing, timeout after 4 s) yields in a
\* DNS world; no name, since names are sequences of single characters
DigFails == <<"timeout">>

\* faulty variant: a failed lookup discards the hops collected so far
RECURSIVE HopsLostOnFailure(_, _, _, _)
HopsLostOnFailure(dig, current, depth, chain) ==
    IF depth = 0 THEN chain
    ELSE LET out    == DigFirstLine(dig, current)
             target == RStrip(out, ".")
         IN  IF out = DigFails THEN <<>>
             ELSE IF target = <<>> THEN chain
             ELSE HopsLostOnFailure(dig, target, depth - 1, Append(chain, target))

\* the hop loop of resolve_cname_chain: an exception (lines 189-190) and an
\* empty answer (lines 184-185) both break out of the loop
RECURSIVE Hops(_, _, _, _)
Hops(dig, current, depth, chain) ==
    IF depth = 0 THEN chain
    ELSE LET out    == DigFirstLine(dig, current)
             target == RStrip(out, ".")
         IN  IF out = DigFails THEN chain
             ELSE IF target = <<>> THEN chain
             ELSE Hops(dig, target, depth - 1, Append(chain, target))

\* faulty variant: a persisted entry is used whatever its expiry time
resolve_cname_chain_no_expiry(domain, max_depth, persist, cache, now, dig) ==
    IF max_depth < 1
    THEN [chain |-> <<>>, persist |-> persist, cache |-> cache, asked |-> FALSE]
    ELSE LET d == RStrip(Lower(domain), ".")
         IN  IF d \in DOMAIN persist
             THEN [chain |-> persist[d].chain, persist |-> persist, cache |-> cache,
                   asked |-> FALSE]
             ELSE LET chain == Hops(dig, d, max_depth, <<>>)
                      ttl   == cname_cache_ttl_hours * SecondsPerHour
                      entry == [chain |-> chain, until |-> now + ttl]
                  IN  [chain   |-> chain,
                       asked   |-> TRUE,
                       persist |-> [x \in DOMAIN persist \cup {d} |->
                                       IF x = d THEN entry ELSE persist[x]],
                       cache   |-> [x \in DOMAIN cache \cup {d} |->
                                       IF x = d THEN chain ELSE cache[x]]]

\* resolve_cname_chain(domain, max_depth) with the globals CNAME_PERSIST
\* (persist) and CNAME_CACHE (cache) passed in and returned; asked: dig was run
resolve_cname_chain(domain, max_depth, persist, cache, now, dig) ==
    IF max_depth < 1
    THEN [chain |-> <<>>, persist |-> persist, cache |-> cache, asked |-> FALSE]
    ELSE LET d == RStrip(Lower(domain), ".")
         IN  IF d \in DOMAIN persist /\ persist[d].until > now
             THEN [chain |-> persist[d].chain, persist |-> persist, cache |-> cache,
                   asked |-> FALSE]
             ELSE IF d \in DOMAIN cache
             THEN [chain |-> cache[d], persist |-> persist, cache |-> cache,
                   asked |-> FALSE]
             ELSE LET chain == Hops(dig, d, max_depth, <<>>)
                      ttl   == cname_cache_ttl_hours * SecondsPerHour
                      entry == [chain |-> chain, until |-> now + ttl]
                  IN  [chain   |-> chain,
                       asked   |-> TRUE,
                       persist |-> [x \in DOMAIN persist \cup {d} |->
                                       IF x = d THEN entry ELSE persist[x]],
                       cache   |-> [x \in DOMAIN cache \cup {d} |->
                                       IF x = d THEN chain ELSE cache[x]]]

\* the loop of cname_suspicious over the chain
RECURSIVE ChainVerdict(_, _, _)
ChainVerdict(chain, LEARNED, FAMS) ==
    IF chain = <<>> THEN [sus |-> FALSE, reasons |-> <<>>]
    ELSE LET cname == Head(chain)
             e     == ETld1(cname)
         IN  IF domain_suffix_in_list(cname, allowlist)
             THEN [sus |-> FALSE, reasons |-> <<Tag("cname_allowlist", <<>>)>>]
             ELSE IF \E i \in 1..Len(suspicious_substrings) :
                        Contains(cname, suspicious_substrings[i])
             THEN [sus |-> TRUE, reasons |-> <<Tag("cname_substr", cname)>>]
             ELSE IF \E tok \in LEARNED : Contains(cname, tok)
             THEN [sus |-> TRUE, reasons |-> <<Tag("cname_learn", cname)>>]
             ELSE IF domain_suffix_in_list(cname, suspicious_tlds)
             THEN [sus |-> TRUE, reasons |-> <<Tag("cname_tld", cname)>>]
             ELSE IF e \in FAMS
             THEN [sus |-> TRUE, reasons |-> <<Tag("cname_fam", e)>>]
             ELSE ChainVerdict(Tail(chain), LEARNED, FAMS)

\* cname_suspicious(domain, cfg) -> [sus, reasons] and the caches it leaves
cname_suspicious(domain, persist, cache, now, dig, LEARNED, FAMS) ==
    IF cname_max_depth < 1
    THEN [sus |-> FALSE, reasons |-> <<>>, persist |-> persist, cache |-> cache]
    ELSE LET r == resolve_cname_chain(domain, cname_max_depth, persist, cache, now, dig)
             v == ChainVerdict(r.chain, LEARNED, FAMS)
         IN  [sus |-> v.sus, reasons |-> v.reasons,
              persist |-> r.persist, cache |-> r.cache]

(* ---------------------------------------------------------------------- *)
(* Scoring                                                                 *)
(* ---------------------------------------------------------------------- *)

\* the if/elif chain of compute_score on one reason tag, in hundredths
BoostOf(tag) ==
    LET k == tag[1]
    IN  IF k = "substr" THEN 25
        ELSE IF k = "learn" THEN 15
        ELSE IF k = "tld" \/ k = "cname_tld" THEN 20
        ELSE IF k = "fam" \/ k = "cname_fam" THEN 15
        ELSE IF k \in {"cname_substr", "cname_learn", "cname_allowlist"} THEN 20
        ELSE 0

RECURSIVE SumBoost(_)
SumBoost(reasons) ==
    IF reasons = <<>> THEN 0 ELSE BoostOf(Head(reasons)) + SumBoost(Tail(reasons))

Min(a, b) == IF a <= b THEN a ELSE b
Max(a, b) == IF a >= b THEN a ELSE b

\* seq[:n] for n >= 0
Slice(seq, n) == SubSeq(seq, 1, Min(Len(seq), n))

\* faulty variant: the sum is returned without the clamp to [0,1]
compute_score_unclamped(metrics, reasons) ==
    LET H     == metrics.hits + score_hits_k
        U     == metrics.uniq + score_uniq_k
        T     == metrics.hours + score_hours_k
        boost == Min(SumBoost(reasons), 60)
        den   == 100 * H * U * T
        raw   == 40 * metrics.hits * U * T + 30 * metrics.uniq * H * T
                 + 30 * metrics.hours * H * U + boost * H * U * T
    IN  [num |-> raw, den |-> den]

\* compute_score(domain, metrics, reasons, cfg) as the exact rational num/den:
\* 0.4*h/(h+kh) + 0.3*u/(u+ku) + 0.3*t/(t+kt) + min(boost, 0.6), clamped to [0,1]
compute_score(metrics, reasons) ==
    LET H     == metrics.hits + score_hits_k
        U     == metrics.uniq + score_uniq_k
        T     == metrics.hours + score_hours_k
        boost == Min(SumBoost(reasons), 60)
        den   == 100 * H * U * T
        raw   == 40 * metrics.hits * U * T + 30 * metrics.uniq * H * T
                 + 30 * metrics.hours * H * U + boost * H * U * T
    IN  [num |-> Max(0, Min(den, raw)), den |-> den]

\* a >= b on rationals with positive denominators
ScoreGE(a, b) == a.num * b.den >= b.num * a.den

promo_min_score == [num |-> PromoMinNum, den |-> PromoMinDen]

(* ---------------------------------------------------------------------- *)
(* Learned keywords                                                        *)
(* ---------------------------------------------------------------------- *)

\* the domain column of the gravity table, in row order
GravityColumn == [i \in 1..Len(GravityRows) |-> GravityRows[i][1]]

\* [x for x in dom.split('.') if x and x not in stop and len(x) >= 3]
KeptParts(dom, stop) ==
    SelectSeq(Split(dom), LAMBDA x : x # <<>> /\ x \notin stop /\ Len(x) >= 3)

\* faulty variant: support counts the corpus rows, not their families
TokenRows(rows, stop, t) ==
    {j \in 1..Len(rows) :
        \E k \in 1..Len(KeptParts(rows[j], stop)) : KeptParts(rows[j], stop)[k] = t}

\* token_to_etlds[t]
TokenFamilies(rows, stop, t) ==
    {ETld1(rows[i]) :
        i \in {j \in 1..Len(rows) :
                 \E k \in 1..Len(KeptParts(rows[j], stop)) :
                     KeptParts(rows[j], stop)[k] = t}}

\* the tokens in the insertion order of the dict token_to_etlds
RECURSIVE AppendNew(_, _)
AppendNew(acc, parts) ==
    IF parts = <<>> THEN acc
    ELSE AppendNew(IF \E i \in 1..Len(acc) : acc[i] = Head(parts)
                   THEN acc ELSE Append(acc, Head(parts)), Tail(parts))

RECURSIVE TokenOrder(_, _, _, _)
TokenOrder(rows, stop, i, acc) ==
    IF i > Len(rows) THEN acc
    ELSE TokenOrder(rows, stop, i + 1, AppendNew(acc, KeptParts(rows[i], stop)))

\* sorted(cand, key=support, reverse=True): stable, ties keep their order
RECURSIVE InsertBySupport(_, _, _, _)
InsertBySupport(rows, stop, sorted, t) ==
    IF sorted = <<>> THEN <<t>>
    ELSE IF Cardinality(TokenFamilies(rows, stop, Head(sorted)))
               >= Cardinality(TokenFamilies(rows, stop, t))
         THEN <<Head(sorted)>> \o InsertBySupport(rows, stop, Tail(sorted), t)
         ELSE <<t>> \o sorted

RECURSIVE SortBySupport(_, _, _, _)
SortBySupport(rows, stop, seq, acc) ==
    IF seq = <<>> THEN acc
    ELSE SortBySupport(rows, stop, Tail(seq), InsertBySupport(rows, stop, acc, Head(seq)))

\* lines 263-273: the keyword list mined from the corpus rows
mine_keywords(rows, stop, min_sup, max_kw) ==
    LET cand   == SelectSeq(TokenOrder(rows, stop, 1, <<>>),
                     LAMBDA t : Cardinality(TokenFamilies(rows, stop, t)) >= min_sup)
        ranked == SortBySupport(rows, stop, cand, <<>>)
    IN  Slice(ranked, max_kw)

\* maybe_rebuild_learned_keywords(cfg): the learned-keyword file it leaves;
\* dbFail: reading gravity raised
maybe_rebuild_learned_keywords(file, now, enabled, refresh_hours, dbFail, rows, stop, min_sup, max_kw) ==
    IF ~enabled THEN file
    ELSE IF now - file.built_at < refresh_hours * SecondsPerHour THEN file
    ELSE IF dbFail THEN file
    ELSE [keywords |-> mine_keywords(rows, stop, min_sup, max_kw), built_at |-> now]

\* the keyword list mined from the gravity table under the configuration
MineKeywords ==
    mine_keywords(GravityColumn, learn_stopwords, learn_min_support_etlds,
                  learn_max_keywords)

\* load_learned_keywords(cfg): set(data["keywords"])
load_learned_keywords(file) ==
    IF auto_learn_keywords THEN {file.keywords[i] : i \in 1..Len(file.keywords)} ELSE {}

(* ---------------------------------------------------------------------- *)
(* The steps of main(): pre-filter, classification, quarantine update      *)
(* ---------------------------------------------------------------------- *)

\* is_already_blocked_anywhere(domain); dbFail: the query raised
is_already_blocked_anywhere(d, dlist, dbFail) ==
    IF dbFail THEN FALSE ELSE d \in dlist \/ d \in GravityDomains

\* steps 1, 1b: the traffic thresholds
PassThresholds(counts) ==
    {d \in DOMAIN counts :
        /\ counts[d].hits >= min_hits
        /\ counts[d].uniq >= min_unique
        /\ (min_hours_active > 0 => counts[d].hours >= min_hours_active)}

\* steps 1, 1b, 2: the eligible domains, in the order of counts.items()
Eligible(counts, dlist, dbFail) ==
    SelectSeq(DomainOrder, LAMBDA d :
        /\ d \in PassThresholds(counts)
        /\ ~is_already_blocked_anywhere(d, dlist, dbFail))

\* sorted(rem, key=hits, reverse=True): stable
RECURSIVE InsertByHits(_, _, _)
InsertByHits(sorted, d, counts) ==
    IF sorted = <<>> THEN <<d>>
    ELSE IF counts[Head(sorted)].hits >= counts[d].hits
         THEN <<Head(sorted)>> \o InsertByHits(Tail(sorted), d, counts)
         ELSE <<d>> \o sorted

RECURSIVE SortByHits(_, _, _)
SortByHits(seq, acc, counts) ==
    IF seq = <<>> THEN acc
    ELSE SortByHits(Tail(seq), InsertByHits(acc, Head(seq), counts), counts)

\* step 4: the loop over rem; flags maps a flagged domain to its reasons
RECURSIVE CnameLoop(_, _, _, _, _, _, _, _)
CnameLoop(rem, flags, persist, cache, now, dig, LEARNED, FAMS) ==
    IF rem = <<>> THEN [flags |-> flags, persist |-> persist]
    ELSE LET d == Head(rem)
             r == cname_suspicious(d, persist, cache, now, dig, LEARNED, FAMS)
             f == IF r.sus
                  THEN [x \in DOMAIN flags \cup {d} |->
                           IF x = d THEN r.reasons ELSE flags[x]]
                  ELSE flags
         IN  CnameLoop(Tail(rem), f, r.persist, r.cache, now, dig, LEARNED, FAMS)

\* faulty variant: rem is cut to its first topN entries without the sort
ClassifyTopUnsorted(eligible, counts, persist, now, dig, LEARNED, lseq, FAMS, topN) ==
    LET cheapSet == {eligible[i] : i \in {j \in 1..Len(eligible) :
                        substr_or_tld_suspicious(eligible[j], lseq, FAMS).sus}}
        cheap    == [d \in cheapSet |-> substr_or_tld_suspicious(d, lseq, FAMS).reasons]
        rem0     == SelectSeq(eligible, LAMBDA d : d \notin cheapSet)
        rem      == Slice(rem0, topN)
    IN  CnameLoop(rem, cheap, persist, <<>>, now, dig, LEARNED, FAMS)

\* steps 3 and 4 with top_n_cname = topN: cheap_flags (the candidates are its
\* keys) and CNAME_PERSIST
ClassifyTop(eligible, counts, persist, now, dig, LEARNED, lseq, FAMS, topN) ==
    LET cheapSet == {eligible[i] : i \in {j \in 1..Len(eligible) :
                        substr_or_tld_suspicious(eligible[j], lseq, FAMS).sus}}
        cheap    == [d \in cheapSet |-> substr_or_tld_suspicious(d, lseq, FAMS).reasons]
        rem0     == SelectSeq(eligible, LAMBDA d : d \notin cheapSet)
        sorted   == SortByHits(rem0, <<>>, counts)
        rem      == Slice(sorted, topN)
    IN  CnameLoop(rem, cheap, persist, <<>>, now, dig, LEARNED, FAMS)

\* steps 3 and 4: cheap_flags (the candidates are its keys) and CNAME_PERSIST
Classify(eligible, counts, persist, now, dig, LEARNED, lseq, FAMS) ==
    ClassifyTop(eligible, counts, persist, now, dig, LEARNED, lseq, FAMS, top_n_cname)

\* ",".join(sorted(set(rlist))): the set of tags
ReasonOf(rlist) == {rlist[i] : i \in 1..Len(rlist)}

\* faulty variant: setdefault on last_seen, assignment to first_seen
UpdatedEntrySwapped(quarantine, d, m, rlist, now) ==
    [first_seen |-> now,
     last_seen  |-> IF d \in DOMAIN quarantine THEN quarantine[d].last_seen ELSE now,
     score      |-> compute_score(m, rlist),
     reason     |-> ReasonOf(rlist),
     hits       |-> m.hits,
     uniq       |-> m.uniq,
     hours      |-> m.hours]

\* faulty variant: setdefault on score, a stored score is kept
UpdatedEntryStoredScore(quarantine, d, m, rlist, now) ==
    [first_seen |-> IF d \in DOMAIN quarantine THEN quarantine[d].first_seen ELSE now,
     last_seen  |-> now,
     score      |-> IF d \in DOMAIN quarantine THEN quarantine[d].score
                    ELSE compute_score(m, rlist),
     reason     |-> ReasonOf(rlist),
     hits       |-> m.hits,
     uniq       |-> m.uniq,
     hours      |-> m.hours]

\* step 5 for one candidate: the entry written to quarantine[d]
UpdatedEntry(quarantine, d, m, rlist, now) ==
    [first_seen |-> IF d \in DOMAIN quarantine THEN quarantine[d].first_seen ELSE now,
     last_seen  |-> now,
     score      |-> compute_score(m, rlist),
     reason     |-> ReasonOf(rlist),
     hits       |-> m.hits,
     uniq       |-> m.uniq,
     hours      |-> m.hours]

\* faulty variant: every stored record is stamped as seen in this cycle
UpdateQuarantineStampAll(quarantine, flags, counts, now) ==
    [d \in DOMAIN quarantine \cup DOMAIN flags |->
        IF d \in DOMAIN flags
        THEN UpdatedEntry(quarantine, d, counts[d], flags[d], now)
        ELSE [quarantine[d] EXCEPT !.last_seen = now]]

\* step 5: quarantine after the loop over candidates
UpdateQuarantine(quarantine, flags, counts, now) ==
    [d \in DOMAIN quarantine \cup DOMAIN flags |->
        IF d \in DOMAIN flags
        THEN UpdatedEntry(quarantine, d, counts[d], flags[d], now)
        ELSE quarantine[d]]

(* ---------------------------------------------------------------------- *)
(* Step 6 of main(): promotion and staleness eviction                      *)
(* ---------------------------------------------------------------------- *)

\* faulty variant: the age compared in seconds against a number of hours
DwellReachedUnscaled(meta, now) == (now - meta.first_seen) >= q_hours

\* age_hours >= q_hours, with age_hours = (now - first_seen) / 3600.0
DwellReached(meta, now) == (now - meta.first_seen) >= q_hours * SecondsPerHour

\* faulty variant: the score is not compared with promotion_min_score
PromoteReadyAnyScore(meta, d, now, cands) ==
    /\ DwellReached(meta, now)
    /\ d \in cands

\* the condition of line 571
PromoteReady(meta, d, now, cands) ==
    /\ DwellReached(meta, now)
    /\ d \in cands
    /\ ScoreGE(meta.score, promo_min_score)

\* faulty variant: a record with a promotable score is never stale
StaleUnlessHighScore(meta, now) ==
    /\ (now - meta.last_seen) > 3 * lookback * SecondsPerHour
    /\ ~ScoreGE(meta.score, promo_min_score)

\* the condition of line 580
Stale(meta, now) == (now - meta.last_seen) > 3 * lookback * SecondsPerHour

\* the outcomes of add_to_blacklist(d, cfg): "ok" returns True with the domain
\* committed; "fail" returns False with nothing committed; "fail_committed"
\* returns False although sql_promote had committed (its reload raised, and
\* the `pihole -b` fallback failed)
SinkOutcomes == {"ok", "fail", "fail_committed"}

\* faulty variant: dry_run is not consulted
SinkCallsIgnoringDryRun(quarantine, now, cands, dlist, dbFail, dryRun) ==
    {d \in DOMAIN quarantine :
        /\ PromoteReady(quarantine[d], d, now, cands)
        /\ ~is_already_blocked_anywhere(d, dlist, dbFail)}

\* faulty variant: is_already_blocked_anywhere is not consulted
SinkCallsIgnoringOracle(quarantine, now, cands, dlist, dbFail, dryRun) ==
    {d \in DOMAIN quarantine :
        /\ PromoteReady(quarantine[d], d, now, cands)
        /\ ~dryRun}

\* lines 572-576: the domains add_to_blacklist is called for
SinkCalls(quarantine, now, cands, dlist, dbFail, dryRun) ==
    {d \in DOMAIN quarantine :
        /\ PromoteReady(quarantine[d], d, now, cands)
        /\ ~is_already_blocked_anywhere(d, dlist, dbFail)
        /\ ~dryRun}

\* faulty variant: the result of add_to_blacklist is not consulted
NewEventsForEveryCall(quarantine, now, called, sink) ==
    LET hit == SelectSeq(DomainOrder, LAMBDA d : d \in called)
    IN  [i \in 1..Len(hit) |->
            [domain |-> hit[i], ts |-> now, score |-> quarantine[hit[i]].score]]

\* lines 577-578: the events appended to state["blocked"], in loop order
NewEvents(quarantine, now, called, sink) ==
    LET hit == SelectSeq(DomainOrder, LAMBDA d : d \in called /\ sink[d] = "ok")
    IN  [i \in 1..Len(hit) |->
            [domain |-> hit[i], ts |-> now, score |-> quarantine[hit[i]].score]]

\* faulty variant: only stale records are popped
PoppedStaleOnly(quarantine, now, cands) ==
    {d \in DOMAIN quarantine : Stale(quarantine[d], now)}

\* lines 579-581: the records the loop pops
Popped(quarantine, now, cands) ==
    {d \in DOMAIN quarantine :
        \/ PromoteReady(quarantine[d], d, now, cands)
        \/ Stale(quarantine[d], now)}

\* quarantine after the loop
AfterPromotion(quarantine, now, cands) ==
    [d \in DOMAIN quarantine \ Popped(quarantine, now, cands) |-> quarantine[d]]

\* the domainlist rows the sink leaves in gravity.db
Committed(called, sink) == {d \in called : sink[d] \in {"ok", "fail_committed"}}

(* ---------------------------------------------------------------------- *)
(* Review export (lines 588-615)                                           *)
(* ---------------------------------------------------------------------- *)

\* the names in the order of sort_keys=True (str comparison)
KeyOrder == <<ADS_xy_dot, ads_ok_cc, ads_xy>>

\* quarantine.items(): the keys loaded from the file in the file's order,
\* then the keys step 5 inserted, in the order of the candidates
ItemsOrder(loaded, quarantine) ==
    SelectSeq(KeyOrder, LAMBDA d : d \in DOMAIN loaded /\ d \in DOMAIN quarantine)
    \o SelectSeq(DomainOrder, LAMBDA d : d \notin DOMAIN loaded /\ d \in DOMAIN quarantine)

\* one element of items
Flatten(d, v) ==
    [domain |-> d, score |-> v.score, reason |-> v.reason,
     first_seen |-> v.first_seen, last_seen |-> v.last_seen,
     hits |-> v.hits, uniq |-> v.uniq, hours |-> v.hours]

RECURSIVE GCD(_, _)
GCD(a, b) == IF b = 0 THEN a ELSE GCD(b, a % b)

\* a > b on rationals, on the reduced fractions
ScoreGT(a, b) ==
    LET ga == GCD(a.den, a.num)
        gb == GCD(b.den, b.num)
    IN  (a.num \div ga) * (b.den \div gb) > (b.num \div gb) * (a.den \div ga)

\* items.sort(key=score, reverse=True): stable, equal scores keep their order
RECURSIVE InsertByScore(_, _)
InsertByScore(sorted, it) ==
    IF sorted = <<>> THEN <<it>>
    ELSE IF ScoreGT(it.score, Head(sorted).score)
         THEN <<it>> \o sorted
         ELSE <<Head(sorted)>> \o InsertByScore(Tail(sorted), it)

RECURSIVE SortByScore(_, _)
SortByScore(seq, acc) ==
    IF seq = <<>> THEN acc
    ELSE SortByScore(Tail(seq), InsertByScore(acc, Head(seq)))

\* faulty variant: the items are written in the order of the mapping
review_items_unsorted(loaded, quarantine) ==
    LET order == ItemsOrder(loaded, quarantine)
    IN  [i \in 1..Len(order) |-> Flatten(order[i], quarantine[order[i]])]

\* the list saved to review_json
review_items(loaded, quarantine) ==
    LET order == ItemsOrder(loaded, quarantine)
        items == [i \in 1..Len(order) |-> Flatten(order[i], quarantine[order[i]])]
    IN  SortByScore(items, <<>>)

(* ---------------------------------------------------------------------- *)
(* State                                                                   *)
(* ---------------------------------------------------------------------- *)

Procs == {"p1", "p2"}

\* bounds of the exploration
MaxTicks == 2
MaxCycles == 3

Advances == {11 * SecondsPerHour, 62 * SecondsPerHour}

\* the wall clock when the first invocation starts
Epoch0 == 100 * SecondsPerHour

\* the metrics a domain can show in one lookback window
Profiles ==
    {[hits |-> 9,  uniq |-> 2, hours |-> 1],
     [hits |-> 50, uniq |-> 5, hours |-> 8]}

VARIABLES
    clock,        \* time.time()
    ticks,        \* number of clock advances so far
    cycles,       \* number of invocations that took the lock so far
    dry,          \* CFG["dry_run"]
    quarFile,     \* quarantine_file: domain -> record
    stateFile,    \* state_file: the list state["blocked"]
    cnameFile,    \* cname_cache_path: domain -> [chain, until]
    learnedFile,  \* learned_keywords_path: [keywords, built_at]
    domainlist,   \* gravity.db: enabled blacklist rows of domainlist
    lockHolder,   \* owner of the flock on the lock file, or "none"
    pc,           \* per process: position in main()
    mem,          \* per process: the in-memory state and inputs of its run
    last,         \* history: inputs and persisted result of the last completed cycle
    committed,    \* history: the files as the last completed cycle left them
    probe,        \* one function called on its own: its arguments and its result
    reviewFile    \* quarantine_review_file: the exported list of records

vars == <<clock, ticks, cycles, dry, quarFile, stateFile, cnameFile, learnedFile,
          domainlist, lockHolder, pc, mem, last, committed, probe, reviewFile>>

Files == [quar |-> quarFile, state |-> stateFile, cname |-> cnameFile,
          learned |-> learnedFile]

NoInputs == [counts |-> <<>>, dig |-> <<>>, blockF |-> {}, blockP |-> {},
             sink |-> <<>>, now |-> 0]

\* the memory of a process that is not past load
\* (loaded, state0: quarantine and state as loaded; qMid: quarantine between
\* step 5 and step 6; called: the domains add_to_blacklist was called for;
\* events: the events this run appended; touched: a state file was read)
Blank == [quarantine |-> <<>>, state |-> <<>>, persist |-> <<>>, LEARNED |-> {},
          loaded |-> <<>>, state0 |-> <<>>,
          cands |-> {}, qMid |-> <<>>, called |-> {}, events |-> <<>>,
          touched |-> FALSE, in |-> NoInputs]

\* no function is called on its own
NoProbe == [fn |-> "none"]

Init ==
    /\ clock = Epoch0
    /\ ticks = 0
    /\ cycles = 0
    /\ dry \in BOOLEAN
    /\ quarFile = <<>>
    /\ stateFile = <<>>
    /\ cnameFile = <<>>
    /\ learnedFile = [keywords |-> <<>>, built_at |-> 0]
    /\ domainlist = {}
    /\ lockHolder = "none"
    /\ pc = [p \in Procs |-> "idle"]
    /\ mem = [p \in Procs |-> Blank]
    /\ last = [valid |-> FALSE, in |-> NoInputs, quar |-> <<>>, state |-> <<>>]
    /\ committed = [quar |-> <<>>, state |-> <<>>, cname |-> <<>>,
                    learned |-> [keywords |-> <<>>, built_at |-> 0]]
    /\ probe = NoProbe
    /\ reviewFile = <<>>

(* ---------------------------------------------------------------------- *)
(* Actions                                                                 *)
(* ---------------------------------------------------------------------- *)

Perms(S) == {f \in [1..Cardinality(S) -> S] : \A x \in S : \E i \in DOMAIN f : f[i] = x}

CountsInputs == UNION {[S -> Profiles] : S \in SUBSET Domains}

\* what the Suppression Oracle answers for every domain
BlockedView(dlist, dbFail) == {d \in Domains : is_already_blocked_anywhere(d, dlist, dbFail)}

\* faulty variant: the lock is granted whoever holds it
FlockAlwaysGranted(holder) == TRUE

\* fcntl.flock(lockf, LOCK_EX | LOCK_NB) succeeds iff nobody holds the lock
FlockGranted(holder) == holder = "none"

\* positions of main() between taking the lock and the last save
Running == {"load", "rebuild", "scan", "promote", "save_q", "save_s", "save_c"}
PastLock == Running \cup {"export"}

\* main() is invoked (lines 473-481): load_yaml, open the lock file, then
\* take the lock or print and return
Invoke(p) ==
    /\ pc[p] \in {"idle", "crashed"}
    /\ cycles < MaxCycles
    /\ IF FlockGranted(lockHolder)
       THEN /\ lockHolder' = p
            /\ cycles' = cycles + 1
            /\ pc' = [pc EXCEPT ![p] = "load"]
       ELSE /\ lockHolder' = lockHolder
            /\ cycles' = cycles
            /\ pc' = [pc EXCEPT ![p] = "refused"]
    /\ UNCHANGED <<clock, ticks, dry, quarFile, stateFile, cnameFile, learnedFile,
                   domainlist, mem, last, committed, probe, reviewFile>>

\* the refused invocation has returned
ExitRefused(p) ==
    /\ pc[p] = "refused"
    /\ pc' = [pc EXCEPT ![p] = "idle"]
    /\ UNCHANGED <<clock, ticks, cycles, dry, quarFile, stateFile, cnameFile, learnedFile,
                   domainlist, lockHolder, mem, last, committed, probe, reviewFile>>

\* lines 489-495: load_json of the state files, the caches and learned data
LoadState(p) ==
    /\ pc[p] = "load"
    /\ mem' = [mem EXCEPT ![p] =
                 [Blank EXCEPT !.quarantine = quarFile,
                               !.loaded     = quarFile,
                               !.state      = stateFile,
                               !.state0     = stateFile,
                               !.persist    = cnameFile,
                               !.LEARNED    = load_learned_keywords(learnedFile),
                               !.touched    = TRUE]]
    /\ pc' = [pc EXCEPT ![p] = "rebuild"]
    /\ UNCHANGED <<clock, ticks, cycles, dry, quarFile, stateFile, cnameFile, learnedFile,
                   domainlist, lockHolder, last, committed, probe, reviewFile>>

\* line 496: maybe_rebuild_learned_keywords(cfg) (the explored runs read
\* gravity successfully)
RebuildLearned(p) ==
    /\ pc[p] = "rebuild"
    /\ \E dbFail \in {FALSE} :
          learnedFile' = maybe_rebuild_learned_keywords(
                             learnedFile, clock, auto_learn_keywords, learn_refresh_hours,
                             dbFail, GravityColumn, learn_stopwords,
                             learn_min_support_etlds, learn_max_keywords)
    /\ pc' = [pc EXCEPT ![p] = "scan"]
    /\ UNCHANGED <<clock, ticks, cycles, dry, quarFile, stateFile, cnameFile,
                   domainlist, lockHolder, mem, last, committed, probe, reviewFile>>

\* lines 498-558: metrics, pre-filter, classification, quarantine update
ScanFrom(p, CS, DS, FS) ==
    /\ pc[p] = "scan"
    /\ \E counts \in CS, dig \in DS, dbFail \in FS,
          lseq \in Perms(mem[p].LEARNED) :
          LET m        == mem[p]
              now      == clock
              eligible == Eligible(counts, domainlist, dbFail)
              c        == Classify(eligible, counts, m.persist, now, dig,
                                   m.LEARNED, lseq, build_reputation_families)
              asked    == c.persist # m.persist
          IN  mem' = [mem EXCEPT ![p] =
                        [m EXCEPT !.persist    = c.persist,
                                  !.cands      = DOMAIN c.flags,
                                  !.quarantine = UpdateQuarantine(m.quarantine, c.flags,
                                                                  counts, now),
                                  !.qMid       = UpdateQuarantine(m.quarantine, c.flags,
                                                                  counts, now),
                                  !.in = [m.in EXCEPT
                                            !.counts = [d \in PassThresholds(counts) |-> counts[d]],
                                            !.dig    = IF asked THEN dig ELSE NoCname,
                                            !.blockF = BlockedView(domainlist, dbFail),
                                            !.now    = now]]]
    /\ pc' = [pc EXCEPT ![p] = "promote"]
    /\ UNCHANGED <<clock, ticks, cycles, dry, quarFile, stateFile, cnameFile, learnedFile,
                   domainlist, lockHolder, last, committed, probe, reviewFile>>

Scan(p) == ScanFrom(p, CountsInputs, DnsWorlds, {FALSE})

\* lines 560-581: the promotion loop
PromoteFrom(p, FS, OS) ==
    /\ pc[p] = "promote"
    /\ \E dbFail \in FS :
          LET m      == mem[p]
              now    == m.in.now
              called == SinkCalls(m.quarantine, now, m.cands, domainlist, dbFail, dry)
          IN  \E sink \in [called -> OS] :
                 /\ mem' = [mem EXCEPT ![p] =
                              [m EXCEPT !.quarantine = AfterPromotion(m.quarantine, now, m.cands),
                                        !.state  = m.state \o NewEvents(m.quarantine, now,
                                                                        called, sink),
                                        !.called = called,
                                        !.events = NewEvents(m.quarantine, now, called, sink),
                                        !.in = [m.in EXCEPT
                                                  !.blockP = BlockedView(domainlist, dbFail),
                                                  !.sink   = sink]]]
                 /\ domainlist' = domainlist \cup Committed(called, sink)
    /\ pc' = [pc EXCEPT ![p] = "save_q"]
    /\ UNCHANGED <<clock, ticks, cycles, dry, quarFile, stateFile, cnameFile, learnedFile,
                   lockHolder, last, committed, probe, reviewFile>>

Promote(p) == PromoteFrom(p, BOOLEAN, SinkOutcomes)

\* line 584: save_json(quar_path, quarantine)
SaveQuarantine(p) ==
    /\ pc[p] = "save_q"
    /\ quarFile' = mem[p].quarantine
    /\ pc' = [pc EXCEPT ![p] = "save_s"]
    /\ UNCHANGED <<clock, ticks, cycles, dry, stateFile, cnameFile, learnedFile,
                   domainlist, lockHolder, mem, last, committed, probe, reviewFile>>

\* faulty variant: only the events of this cycle are written to the log
SaveStateEventsOnly(p) ==
    /\ pc[p] = "save_s"
    /\ stateFile' = mem[p].events
    /\ pc' = [pc EXCEPT ![p] = "save_c"]
    /\ UNCHANGED <<clock, ticks, cycles, dry, quarFile, cnameFile, learnedFile,
                   domainlist, lockHolder, mem, last, committed, probe, reviewFile>>

\* line 585: save_json(state_path, state)
SaveState(p) ==
    /\ pc[p] = "save_s"
    /\ stateFile' = mem[p].state
    /\ pc' = [pc EXCEPT ![p] = "save_c"]
    /\ UNCHANGED <<clock, ticks, cycles, dry, quarFile, cnameFile, learnedFile,
                   domainlist, lockHolder, mem, last, committed, probe, reviewFile>>

\* line 586: save_persist_cache(CFG); the cycle's state is now persisted
SavePersistCache(p) ==
    /\ pc[p] = "save_c"
    /\ cnameFile' = mem[p].persist
    /\ committed' = [quar |-> quarFile, state |-> stateFile, cname |-> mem[p].persist,
                     learned |-> learnedFile]
    /\ pc' = [pc EXCEPT ![p] = "export"]
    /\ UNCHANGED <<clock, ticks, cycles, dry, quarFile, stateFile, learnedFile,
                   domainlist, lockHolder, mem, last, probe, reviewFile>>

\* lines 588-626: exports, output list, summary; main() returns, the lock is freed
FinishWith(p, record) ==
    /\ pc[p] = "export"
    /\ last' = IF record
               THEN [valid |-> TRUE, in |-> mem[p].in, quar |-> quarFile, state |-> stateFile]
               ELSE last
    /\ lockHolder' = IF lockHolder = p THEN "none" ELSE lockHolder
    /\ mem' = [mem EXCEPT ![p] = Blank]
    /\ pc' = [pc EXCEPT ![p] = "idle"]
    /\ reviewFile' = review_items(mem[p].loaded, mem[p].quarantine)
    /\ UNCHANGED <<clock, ticks, cycles, dry, quarFile, stateFile, cnameFile, learnedFile,
                   domainlist, committed, probe>>

Finish(p) == FinishWith(p, FALSE)

\* the same step, with the cycle's inputs and result kept as history
FinishRecorded(p) == FinishWith(p, TRUE)

\* the process dies (kill, power loss, unhandled exception): its memory is
\* lost and the kernel drops its flock
Crash(p) ==
    /\ pc[p] \in PastLock
    /\ lockHolder' = IF lockHolder = p THEN "none" ELSE lockHolder
    /\ last' = IF last.valid THEN [last EXCEPT !.valid = FALSE] ELSE last
    /\ mem' = [mem EXCEPT ![p] = Blank]
    /\ pc' = [pc EXCEPT ![p] = "crashed"]
    /\ UNCHANGED <<clock, ticks, cycles, dry, quarFile, stateFile, cnameFile, learnedFile,
                   domainlist, committed, probe, reviewFile>>

\* time passes; a cycle takes seconds and the advances are hours, so the
\* clock is advanced between cycles
Tick(dt) ==
    /\ ticks < MaxTicks
    /\ lockHolder = "none"
    /\ clock' = clock + dt
    /\ ticks' = ticks + 1
    /\ UNCHANGED <<cycles, dry, quarFile, stateFile, cnameFile, learnedFile,
                   domainlist, lockHolder, pc, mem, last, committed, probe, reviewFile>>

\* the operator (or a gravity update) blocks a candidate outside the autoblocker,
\* between the pre-filter's read of the database and the promotion loop's
OperatorBlock(d) ==
    /\ d \notin domainlist
    /\ \E p \in Procs : pc[p] = "promote" /\ d \in mem[p].cands
    /\ domainlist' = domainlist \cup {d}
    /\ UNCHANGED <<clock, ticks, cycles, dry, quarFile, stateFile, cnameFile, learnedFile,
                   lockHolder, pc, mem, last, committed, probe, reviewFile>>

\* One invocation at a time, each running to completion.
Runner == "p1"

Next ==
    \/ Invoke(Runner)
    \/ LoadState(Runner)
    \/ RebuildLearned(Runner)
    \/ Scan(Runner)
    \/ Promote(Runner)
    \/ SaveQuarantine(Runner)
    \/ SaveState(Runner)
    \/ SavePersistCache(Runner)
    \/ Finish(Runner)
    \/ \E dt \in Advances : Tick(dt)
    \/ \E d \in Domains : OperatorBlock(d)

Spec == Init /\ [][Next]_vars

\* The same, with every completed cycle's inputs and result kept as history.
NextRecorded ==
    \/ Invoke(Runner)
    \/ LoadState(Runner)
    \/ RebuildLearned(Runner)
    \/ Scan(Runner)
    \/ Promote(Runner)
    \/ SaveQuarantine(Runner)
    \/ SaveState(Runner)
    \/ SavePersistCache(Runner)
    \/ FinishRecorded(Runner)
    \/ \E dt \in Advances : Tick(dt)

SpecRecorded == Init /\ [][NextRecorded]_vars

\* Overlapping invocations and crashes, on busy traffic.
BusyCounts == {[d \in Domains |-> [hits |-> 50, uniq |-> 5, hours |-> 8]]}

ScanBusy(p) == ScanFrom(p, BusyCounts, {Cloaked}, {FALSE})

PromoteBusy(p) == PromoteFrom(p, {FALSE}, {"ok", "fail"})

NextConc ==
    \/ \E p \in Procs : Invoke(p)
    \/ \E p \in Procs : ExitRefused(p)
    \/ \E p \in Procs : LoadState(p)
    \/ \E p \in Procs : RebuildLearned(p)
    \/ \E p \in Procs : ScanBusy(p)
    \/ \E p \in Procs : PromoteBusy(p)
    \/ \E p \in Procs : SaveQuarantine(p)
    \/ \E p \in Procs : SaveState(p)
    \/ \E p \in Procs : SavePersistCache(p)
    \/ \E p \in Procs : Finish(p)
    \/ \E p \in Procs : Crash(p)
    \/ \E dt \in Advances : Tick(dt)

SpecConc == Init /\ [][NextConc]_vars

\* The same single runner on heavy traffic behind a cloaking CNAME: both
\* observed domains can reach the promotion score.
HeavyProfile == [hits |-> 200, uniq |-> 10, hours |-> 24]

HeavyCounts == UNION {[S -> {HeavyProfile}] : S \in SUBSET Domains}

ScanHeavy(p) == ScanFrom(p, HeavyCounts, {Cloaked}, {FALSE})

NextHeavy ==
    \/ Invoke(Runner)
    \/ LoadState(Runner)
    \/ RebuildLearned(Runner)
    \/ ScanHeavy(Runner)
    \/ Promote(Runner)
    \/ SaveQuarantine(Runner)
    \/ SaveState(Runner)
    \/ SavePersistCache(Runner)
    \/ Finish(Runner)
    \/ \E dt \in Advances : Tick(dt)

SpecHeavy == Init /\ [][NextHeavy]_vars

\* The same single runner when the metrics carry two spellings of one name
\* (fallback_counts_from_log takes the name as dnsmasq logged it).
SpelledCounts == UNION {[S -> {HeavyProfile}] : S \in SUBSET {ads_xy, ADS_xy_dot}}

ScanSpelled(p) == ScanFrom(p, SpelledCounts, {NoCname}, {FALSE})

NextSpelled ==
    \/ Invoke(Runner)
    \/ LoadState(Runner)
    \/ RebuildLearned(Runner)
    \/ ScanSpelled(Runner)
    \/ Promote(Runner)
    \/ SaveQuarantine(Runner)
    \/ SaveState(Runner)
    \/ SavePersistCache(Runner)
    \/ Finish(Runner)
    \/ \E dt \in Advances : Tick(dt)

SpecSpelled == Init /\ [][NextSpelled]_vars

\* The same single runner on one suspicious name whose traffic varies from
\* cycle to cycle, so that its score does.
LightProfile == [hits |-> 10, uniq |-> 2, hours |-> 1]

VariedCounts ==
    UNION {[S -> {LightProfile, HeavyProfile}] : S \in SUBSET {ads_xy}}

ScanVaried(p) == ScanFrom(p, VariedCounts, {NoCname}, {FALSE})

NextVaried ==
    \/ Invoke(Runner)
    \/ LoadState(Runner)
    \/ RebuildLearned(Runner)
    \/ ScanVaried(Runner)
    \/ Promote(Runner)
    \/ SaveQuarantine(Runner)
    \/ SaveState(Runner)
    \/ SavePersistCache(Runner)
    \/ Finish(Runner)
    \/ \E dt \in Advances : Tick(dt)

SpecVaried == Init /\ [][NextVaried]_vars

(* ---------------------------------------------------------------------- *)
(* Functions called on their own                                           *)
(* ---------------------------------------------------------------------- *)

\* the variables of the cycle
progVars == <<clock, ticks, cycles, dry, quarFile, stateFile, cnameFile, learnedFile,
              domainlist, lockHolder, pc, mem, last, committed, reviewFile>>

\* no invocation has run
AtRest ==
    /\ clock = Epoch0
    /\ ticks = 0
    /\ cycles = 0
    /\ dry = FALSE
    /\ quarFile = <<>>
    /\ stateFile = <<>>
    /\ cnameFile = <<>>
    /\ learnedFile = [keywords |-> <<>>, built_at |-> 0]
    /\ domainlist = {}
    /\ lockHolder = "none"
    /\ pc = [p \in Procs |-> "idle"]
    /\ mem = [p \in Procs |-> Blank]
    /\ last = [valid |-> FALSE, in |-> NoInputs, quar |-> <<>>, state |-> <<>>]
    /\ committed = [quar |-> <<>>, state |-> <<>>, cname |-> <<>>,
                    learned |-> [keywords |-> <<>>, built_at |-> 0]]
    /\ reviewFile = <<>>

\* compute_score(domain, metrics, reasons, cfg) on metrics from zero to heavy
\* traffic and on the reason lists the classifier can build
ScoreMetrics == [hits : {0, 10, 200}, uniq : {0, 2, 10}, hours : {0, 8}]

ScoreReasons ==
    LET sub == Tag("substr", <<"a","d","s">>)
        lrn == Tag("learn", <<"a","d","s">>)
        tld == Tag("tld", <<>>)
        fam == Tag("fam", <<"b",".","i","o">>)
    IN  {<<>>, <<sub>>, <<lrn>>, <<tld>>, <<fam>>, <<sub, tld>>, <<sub, lrn, tld>>,
         <<sub, lrn, tld, fam>>,
         <<Tag("cname_substr", ads_xy)>>, <<Tag("cname_learn", ads_xy)>>,
         <<Tag("cname_tld", ads_xy)>>, <<Tag("cname_fam", <<"b",".","i","o">>)>>}

InitScore ==
    /\ AtRest
    /\ probe \in [fn : {"compute_score"}, metrics : ScoreMetrics, reasons : ScoreReasons,
                  out : {[num |-> 0, den |-> 1]}, done : {FALSE}]

CallComputeScore ==
    /\ probe.fn = "compute_score"
    /\ ~probe.done
    /\ probe' = [probe EXCEPT !.out = compute_score(probe.metrics, probe.reasons),
                              !.done = TRUE]
    /\ UNCHANGED progVars

NextScore == CallComputeScore

SpecScore == InitScore /\ [][NextScore]_vars

\* resolve_cname_chain(domain, max_depth) over several runs of the program:
\* CNAME_PERSIST is what the previous run saved, CNAME_CACHE starts empty in
\* every run, and cname_max_depth is read from the configuration of the run.
\* failed (history): the names whose persisted entry was written by a
\* resolution that ended in a lookup that raised.
t_b_io == <<"t",".","b",".","i","o">>

\* ads.ok.cc -> ads.xy -> t.b.io
DeepDns == [n \in Names |-> IF n = ads_ok_cc THEN ads_xy ELSE t_b_io]

\* the lookup of ads.xy fails; every lookup fails
FailSecond == [n \in Names |-> IF n = ads_ok_cc THEN ads_xy ELSE DigFails]
FailFirst  == [n \in Names |-> DigFails]

ResolveWorlds == {NoCname, Cloaked, DeepDns, FailSecond, FailFirst}

\* the walk from `current` ends in a lookup that raises
RECURSIVE WalkFails(_, _, _)
WalkFails(dig, current, depth) ==
    IF depth = 0 THEN FALSE
    ELSE LET out == DigFirstLine(dig, current)
         IN  IF out = DigFails THEN TRUE
             ELSE IF RStrip(out, ".") = <<>> THEN FALSE
             ELSE WalkFails(dig, RStrip(out, "."), depth - 1)

Depths == {0, 1, 2}

MaxCalls == 3
MaxRuns == 2

RunGaps == {SecondsPerHour, 25 * SecondsPerHour}

NoCall == [called |-> FALSE]

InitResolve ==
    /\ AtRest
    /\ \E depth \in Depths :
          probe = [fn |-> "resolve_cname_chain", persist |-> <<>>, cache |-> <<>>,
                   now |-> Epoch0, depth |-> depth, calls |-> 0, runs |-> 1,
                   failed |-> {}, res |-> NoCall]

\* one call in the current run
CallResolve ==
    /\ probe.fn = "resolve_cname_chain"
    /\ probe.calls < MaxCalls
    /\ \E domain \in Names, dig \in ResolveWorlds :
          LET r == resolve_cname_chain(domain, probe.depth, probe.persist, probe.cache,
                                       probe.now, dig)
          IN  probe' = [probe EXCEPT
                          !.persist = r.persist,
                          !.cache   = r.cache,
                          !.calls   = probe.calls + 1,
                          !.failed  = IF ~r.asked THEN probe.failed
                                      ELSE IF WalkFails(dig, Normalized(domain), probe.depth)
                                      THEN probe.failed \cup {Normalized(domain)}
                                      ELSE probe.failed \ {Normalized(domain)},
                          !.res     = [called |-> TRUE, domain |-> domain,
                                       depth |-> probe.depth, dig |-> dig,
                                       now |-> probe.now, chain |-> r.chain,
                                       asked |-> r.asked, persist0 |-> probe.persist,
                                       cache0 |-> probe.cache, failed0 |-> probe.failed]]
    /\ UNCHANGED progVars

\* the run ends (save_persist_cache) and a later run starts (load_persist_cache)
NextRun ==
    /\ probe.fn = "resolve_cname_chain"
    /\ probe.runs < MaxRuns
    /\ \E gap \in RunGaps, depth \in Depths :
          probe' = [probe EXCEPT !.cache = <<>>, !.now = probe.now + gap,
                                 !.depth = depth, !.runs = probe.runs + 1,
                                 !.res = NoCall]
    /\ UNCHANGED progVars

NextResolve == CallResolve \/ NextRun

SpecResolve == InitResolve /\ [][NextResolve]_vars

\* Steps 3-5 of main() for one domain, invoked twice on the same inputs:
\* the verdict, the reason tags and the score of each invocation.
ads_trk_xy == <<"a","d","s",".","t","r","k",".","x","y">>

ClassifyNames == {ads_xy, ads_ok_cc, ads_trk_xy}

\* what load_learned_keywords can return: nothing, one or two keywords
LearnedSets == {{}, {<<"a","d","s">>}, {<<"a","d","s">>, <<"t","r","k">>}}

FamilySets == {{}, build_reputation_families}

MaxInvocations == 2

\* lseq: the order in which this invocation's `for tok in LEARNED` yields the
\* keywords (the iteration order of a set of str is fixed by the string
\* hashes, which are salted per process)
classify_and_score(domain, metrics, LEARNED, lseq, FAMS, dig, now) ==
    LET counts == [d \in {domain} |-> metrics]
        c      == Classify(<<domain>>, counts, <<>>, now, dig, LEARNED, lseq, FAMS)
        sus    == domain \in DOMAIN c.flags
    IN  [sus     |-> sus,
         reasons |-> IF sus THEN ReasonOf(c.flags[domain]) ELSE {},
         score   |-> IF sus THEN compute_score(metrics, c.flags[domain])
                     ELSE [num |-> 0, den |-> 1]]

InitClassify ==
    /\ AtRest
    /\ \E domain \in ClassifyNames, metrics \in Profiles, LEARNED \in LearnedSets,
          FAMS \in FamilySets, dig \in DnsWorlds :
          probe = [fn |-> "classify", domain |-> domain, metrics |-> metrics,
                   LEARNED |-> LEARNED, FAMS |-> FAMS, dig |-> dig, outs |-> <<>>]

CallClassify ==
    /\ probe.fn = "classify"
    /\ Len(probe.outs) < MaxInvocations
    /\ \E lseq \in Perms(probe.LEARNED) :
          probe' = [probe EXCEPT !.outs =
                       Append(probe.outs,
                              classify_and_score(probe.domain, probe.metrics,
                                                 probe.LEARNED, lseq, probe.FAMS,
                                                 probe.dig, Epoch0))]
    /\ UNCHANGED progVars

NextClassify == CallClassify

SpecClassify == InitClassify /\ [][NextClassify]_vars

\* Steps 3 and 4 of main() on four eligible domains, one of them matching the
\* direct checks, for small values of top_n_cname.
m_cc == <<"m",".","c","c">>
n_cc == <<"n",".","c","c">>
p_cc == <<"p",".","c","c">>

CapNames == {m_cc, n_cc, p_cc, ads_xy}

\* every name but ads.xy is a CNAME of ads.xy; or no name has a CNAME
CapWorlds ==
    {[n \in CapNames |-> IF n = ads_xy THEN <<>> ELSE ads_xy],
     [n \in CapNames |-> <<>>]}

CapHits == {10, 50, 200}

TopNs == {0, 1, 2, 3}

InitCap ==
    /\ AtRest
    /\ \E eligible \in Perms(CapNames), hits \in [CapNames -> CapHits],
          dig \in CapWorlds, topN \in TopNs :
          probe = [fn |-> "classify_top", eligible |-> eligible,
                   counts |-> [d \in CapNames |-> [hits |-> hits[d], uniq |-> 5, hours |-> 8]],
                   dig |-> dig, topN |-> topN, done |-> FALSE,
                   flags |-> <<>>, persist |-> <<>>]

CallClassifyTop ==
    /\ probe.fn = "classify_top"
    /\ ~probe.done
    /\ LET c == ClassifyTop(probe.eligible, probe.counts, <<>>, Epoch0, probe.dig,
                            {}, <<>>, build_reputation_families, probe.topN)
       IN  probe' = [probe EXCEPT !.flags = c.flags, !.persist = c.persist,
                                  !.done = TRUE]
    /\ UNCHANGED progVars

NextCap == CallClassifyTop

SpecCap == InitCap /\ [][NextCap]_vars

\* cname_suspicious(domain, cfg) for a domain without a direct match, on the
\* chains of up to cname_max_depth hops that dig can report.
ok_cc == <<"o","k",".","c","c">>

HopNames == {ads_xy, ok_cc, ads_ok_cc, t_b_io, n_cc}

\* the chains of distinct hops; the chain resolved is cut at cname_max_depth
Chains ==
    {<<>>} \cup {<<a>> : a \in HopNames}
           \cup {c \in HopNames \X HopNames : c[1] # c[2]}

\* the DNS answers under which `domain` resolves through `chain`
ChainWorld(domain, chain) ==
    [n \in {domain} \cup HopNames |->
        IF n = domain THEN (IF Len(chain) >= 1 THEN chain[1] ELSE <<>>)
        ELSE IF Len(chain) >= 2 /\ n = chain[1] THEN chain[2]
        ELSE <<>>]

InitChain ==
    /\ AtRest
    /\ \E chain \in Chains, LEARNED \in {{}, {<<"a","d","s">>}},
          FAMS \in FamilySets :
          probe = [fn |-> "cname_suspicious", domain |-> m_cc,
                   dig |-> ChainWorld(m_cc, chain), LEARNED |-> LEARNED, FAMS |-> FAMS,
                   done |-> FALSE, chain |-> <<>>, sus |-> FALSE, reasons |-> <<>>]

CallCnameSuspicious ==
    /\ probe.fn = "cname_suspicious"
    /\ ~probe.done
    /\ LET r == cname_suspicious(probe.domain, <<>>, <<>>, Epoch0, probe.dig,
                                 probe.LEARNED, probe.FAMS)
       IN  probe' = [probe EXCEPT !.chain = r.cache[Normalized(probe.domain)],
                                  !.sus = r.sus, !.reasons = r.reasons,
                                  !.done = TRUE]
    /\ UNCHANGED progVars

NextChain == CallCnameSuspicious

SpecChain == InitChain /\ [][NextChain]_vars

\* maybe_rebuild_learned_keywords(cfg) on corpora of up to three gravity rows,
\* with the artifact absent, one hour old or exactly learn_refresh_hours old.
CorpusPool ==
    {<<"a","d","s",".","a",".","i","o">>, <<"a","d","s",".","x",".","a",".","i","o">>, <<"a","d","s",".","b",".","i","o">>,
     <<"t","r","k",".","b",".","i","o">>, <<"t","r","k",".","c",".","i","o">>, <<"w","w","w",".","c",".","i","o">>}

Corpora == UNION {[1..n -> CorpusPool] : n \in 0..3}

old_kw == <<"o","l","d">>

LearnedFiles ==
    {[keywords |-> <<>>, built_at |-> 0],
     [keywords |-> <<old_kw>>, built_at |-> Epoch0 - SecondsPerHour],
     [keywords |-> <<old_kw>>, built_at |-> Epoch0 - learn_refresh_hours * SecondsPerHour]}

MinSupports == {1, 2}
MaxKeywords == {0, 1, 2}

InitMine ==
    /\ AtRest
    /\ \E rows \in Corpora, file \in LearnedFiles, enabled \in BOOLEAN,
          min_sup \in MinSupports, max_kw \in MaxKeywords :
          probe = [fn |-> "maybe_rebuild_learned_keywords", rows |-> rows, file |-> file,
                   enabled |-> enabled, min_sup |-> min_sup, max_kw |-> max_kw,
                   now |-> Epoch0, done |-> FALSE, out |-> file]

CallRebuild ==
    /\ probe.fn = "maybe_rebuild_learned_keywords"
    /\ ~probe.done
    /\ probe' = [probe EXCEPT
                   !.out = maybe_rebuild_learned_keywords(
                               probe.file, probe.now, probe.enabled, learn_refresh_hours,
                               FALSE, probe.rows, learn_stopwords, probe.min_sup,
                               probe.max_kw),
                   !.done = TRUE]
    /\ UNCHANGED progVars

NextMine == CallRebuild

SpecMine == InitMine /\ [][NextMine]_vars

(* ---------------------------------------------------------------------- *)
(* Properties                                                              *)
(* ---------------------------------------------------------------------- *)

\* positions where the promotion loop of the run has finished
AfterPromote == {"save_q", "save_s", "save_c", "export"}

\* positions where steps 1-5 of the run have finished
AfterScan == AfterPromote \cup {"promote"}

HasEvent(events, d) == \E i \in 1..Len(events) : events[i].domain = d

DwellSeconds == q_hours * SecondsPerHour
StaleSeconds == 3 * lookback * SecondsPerHour

IsOne(score) == score.num = score.den

\* the promote conditions of the claims, on the record as step 5 left it
MeetsPromote(m, d) ==
    /\ d \in DOMAIN m.qMid
    /\ m.in.now - m.qMid[d].first_seen >= DwellSeconds
    /\ d \in m.cands
    /\ m.qMid[d].score.num * PromoMinDen >= PromoMinNum * m.qMid[d].score.den

\* C1 (dwell-time gate): in every cycle, a quarantined domain whose age
\* now - firstSeen is below quarantine_hours is not promoted: no Promotion
\* Sink call and no PromotionEvent for it, whatever its score.
C1_DwellGate ==
    \A p \in Procs : pc[p] \in AfterPromote =>
        \A d \in DOMAIN mem[p].qMid :
            mem[p].in.now - mem[p].qMid[d].first_seen < DwellSeconds
            => /\ d \notin mem[p].called
               /\ ~HasEvent(mem[p].events, d)

\* a candidate with score 1.0, quarantined 11 hours ago, is kept unpromoted
C1_Witness ==
    \E p \in Procs : \E d \in DOMAIN mem[p].qMid :
        /\ pc[p] \in AfterPromote
        /\ d \in mem[p].cands
        /\ IsOne(mem[p].qMid[d].score)
        /\ mem[p].in.now - mem[p].qMid[d].first_seen > 0
        /\ mem[p].in.now - mem[p].qMid[d].first_seen < DwellSeconds
        /\ d \in DOMAIN mem[p].quarantine
        /\ d \notin mem[p].called

\* C2 (promotion guard): the sink is called for a domain, and an event is
\* appended for it, only if in that cycle the domain is a candidate, its
\* score of this cycle is >= promotion_min_score and the oracle reported it
\* not blocked.
C2_PromotionGuard ==
    \A p \in Procs : pc[p] \in AfterPromote =>
        \A d \in Domains :
            (d \in mem[p].called \/ HasEvent(mem[p].events, d))
            => /\ d \in mem[p].cands
               /\ d \in DOMAIN mem[p].qMid
               /\ mem[p].qMid[d].score.num * PromoMinDen
                      >= PromoMinNum * mem[p].qMid[d].score.den
               /\ d \notin mem[p].in.blockP

\* the sink is called for one candidate while another candidate, as old but
\* scored below the minimum, is left alone
C2_Witness ==
    \E p \in Procs : \E d, e \in Domains :
        /\ pc[p] \in AfterPromote
        /\ d \in mem[p].called
        /\ HasEvent(mem[p].events, d)
        /\ e \in mem[p].cands
        /\ mem[p].in.now - mem[p].qMid[e].first_seen >= DwellSeconds
        /\ e \notin mem[p].called

\* C3 (allowlist supremacy): a domain matching an allowlist entry is never a
\* candidate and never has its quarantine record created or updated.
C3_AllowlistSupremacy ==
    \A p \in Procs : pc[p] \in AfterScan =>
        \A d \in Domains :
            domain_suffix_in_list(d, allowlist)
            => /\ d \notin mem[p].cands
               /\ (d \in DOMAIN mem[p].qMid <=> d \in DOMAIN mem[p].loaded)
               /\ (d \in DOMAIN mem[p].qMid => mem[p].qMid[d] = mem[p].loaded[d])

\* C4 (staleness eviction): a record not re-seen for more than 3 x lookback
\* is removed in the cycle, whatever its score, with no PromotionEvent; the
\* records a cycle keeps and persists are within the staleness window.
C4_StalenessEviction ==
    \A p \in Procs :
        /\ pc[p] \in AfterPromote =>
              /\ \A d \in DOMAIN mem[p].qMid :
                    mem[p].in.now - mem[p].qMid[d].last_seen > StaleSeconds
                    => /\ d \notin DOMAIN mem[p].quarantine
                       /\ ~HasEvent(mem[p].events, d)
              /\ \A d \in DOMAIN mem[p].quarantine :
                    mem[p].in.now - mem[p].quarantine[d].last_seen <= StaleSeconds
        /\ pc[p] = "export" =>
              \A d \in DOMAIN quarFile :
                    mem[p].in.now - quarFile[d].last_seen <= StaleSeconds

\* a record with score 1.0, last seen 73 hours ago, is evicted without event
C4_Witness ==
    \E p \in Procs : \E d \in DOMAIN mem[p].qMid :
        /\ pc[p] = "export"
        /\ mem[p].in.now - mem[p].qMid[d].last_seen > StaleSeconds
        /\ IsOne(mem[p].qMid[d].score)
        /\ d \notin DOMAIN quarFile
        /\ ~HasEvent(mem[p].events, d)

\* C5 (promotion once the gate opens): in a non-dry-run cycle a domain that
\* has dwelt, is a candidate, scores >= the minimum and is reported not
\* blocked is handed to the sink; when the commit succeeds its record is
\* removed and exactly one event {domain, now, score} is appended.
C5_PromotionHappens ==
    \A p \in Procs : (pc[p] \in AfterPromote /\ ~dry) =>
        /\ \A d \in Domains :
              (MeetsPromote(mem[p], d) /\ d \notin mem[p].in.blockP)
              => /\ d \in mem[p].called
                 /\ mem[p].in.sink[d] = "ok" =>
                       /\ d \notin DOMAIN mem[p].quarantine
                       /\ Cardinality({i \in 1..Len(mem[p].events) :
                                          mem[p].events[i].domain = d}) = 1
                       /\ \E i \in 1..Len(mem[p].events) :
                             mem[p].events[i] = [domain |-> d, ts |-> mem[p].in.now,
                                                 score |-> mem[p].qMid[d].score]
        /\ mem[p].state = mem[p].state0 \o mem[p].events
        /\ pc[p] = "export" =>
              /\ stateFile = mem[p].state
              /\ quarFile = mem[p].quarantine

\* a domain first quarantined 22 hours earlier is promoted and persisted
C5_Witness ==
    \E p \in Procs : \E d \in Domains :
        /\ pc[p] = "export"
        /\ ~dry
        /\ MeetsPromote(mem[p], d)
        /\ mem[p].in.now - mem[p].qMid[d].first_seen < 2 * DwellSeconds
        /\ d \in mem[p].called
        /\ mem[p].in.sink[d] = "ok"
        /\ d \notin DOMAIN quarFile
        /\ stateFile # <<>>
        /\ stateFile[Len(stateFile)].domain = d

\* C6 (idempotence on unchanged input): a cycle that runs right after a
\* completed cycle, with identical metrics and collaborator answers and the
\* same clock, leaves the quarantine file and the promotion log as the first
\* cycle left them.
C6_Idempotence ==
    \A p \in Procs :
        (pc[p] = "export" /\ last.valid /\ last.in = mem[p].in)
        => /\ quarFile = last.quar
           /\ stateFile = last.state

\* C7 (single active instance): at most one invocation is past the lock, it
\* is the lock's holder, and an invocation that was refused the lock has read
\* no state file, has nothing to write and has called no sink.
C7_SingleInstance ==
    /\ Cardinality({p \in Procs : pc[p] \in PastLock}) <= 1
    /\ \A p \in Procs : pc[p] \in PastLock => lockHolder = p
    /\ \A p \in Procs : pc[p] = "refused" =>
          /\ ~mem[p].touched
          /\ mem[p].called = {}
          /\ lockHolder # p

\* one invocation is refused while the other is inside its cycle
C7_Witness ==
    \E p, q \in Procs :
        /\ pc[p] = "refused"
        /\ pc[q] \in {"promote", "save_q", "save_s"}
        /\ mem[q].cands # {}

\* C8 (crash atomicity): when an invocation has crashed and no cycle is in
\* progress, the state files are exactly what the last completed cycle left.
C8_CrashAtomicity ==
    ((\E p \in Procs : pc[p] = "crashed") /\ (\A q \in Procs : pc[q] \notin PastLock))
    => Files = committed

\* C9 (Promotion Sink failure): when the sink reports failure for a domain
\* meeting the promote conditions, the record is removed and no event is
\* appended; a domain whose commit failed in the previous cycle and that is a
\* candidate again has a fresh record, firstSeen = now, and is not promoted.
C9_SinkFailure ==
    \A p \in Procs : pc[p] \in AfterPromote =>
        \A d \in Domains :
            /\ (d \in mem[p].called /\ mem[p].in.sink[d] # "ok")
               => /\ MeetsPromote(mem[p], d)
                  /\ d \notin DOMAIN mem[p].quarantine
                  /\ ~HasEvent(mem[p].events, d)
                  /\ pc[p] = "export" => d \notin DOMAIN quarFile
            /\ (/\ last.valid
                /\ d \in DOMAIN last.in.sink
                /\ last.in.sink[d] # "ok"
                /\ d \in mem[p].cands)
               => /\ mem[p].qMid[d].first_seen = mem[p].in.now
                  /\ d \in DOMAIN mem[p].quarantine
                  /\ d \notin mem[p].called

\* the cycle after a failed commit quarantines the domain afresh
C9_Witness ==
    \E p \in Procs : \E d \in Domains :
        /\ pc[p] = "export"
        /\ last.valid
        /\ d \in DOMAIN last.in.sink
        /\ last.in.sink[d] = "fail"
        /\ d \in mem[p].cands
        /\ d \in DOMAIN quarFile
        /\ quarFile[d].first_seen = mem[p].in.now
        /\ stateFile = <<>>

\* C10 (dry run): with dry_run set the sink is never called and no event is
\* ever appended, and a record meeting the promote conditions is removed.
C10_DryRun ==
    dry =>
        /\ stateFile = <<>>
        /\ \A p \in Procs :
              /\ mem[p].called = {}
              /\ mem[p].state = <<>>
              /\ pc[p] \in AfterPromote =>
                    \A d \in Domains :
                        MeetsPromote(mem[p], d) => d \notin DOMAIN mem[p].quarantine
              /\ pc[p] = "export" =>
                    \A d \in Domains : MeetsPromote(mem[p], d) => d \notin DOMAIN quarFile

\* a dry run drops a record that met the promote conditions
C10_Witness ==
    \E p \in Procs : \E d \in Domains :
        /\ dry
        /\ pc[p] = "export"
        /\ MeetsPromote(mem[p], d)
        /\ d \notin mem[p].in.blockP
        /\ d \in DOMAIN mem[p].loaded
        /\ d \notin DOMAIN quarFile

IsPrefix(s, t) == Len(s) <= Len(t) /\ \A i \in 1..Len(s) : t[i] = s[i]

\* C11 (append-only promotion log): every step leaves the persisted log as
\* it was or extends it; the log a cycle persists has the log persisted
\* before the cycle as a prefix, and no earlier event is changed, reordered
\* or removed.
C11_AppendOnly == [][IsPrefix(stateFile, stateFile')]_vars

\* a cycle has persisted a second event behind the event of an earlier cycle
C11_Witness ==
    \E p \in Procs :
        /\ pc[p] = "export"
        /\ mem[p].state0 # <<>>
        /\ mem[p].events # <<>>
        /\ stateFile = mem[p].state0 \o mem[p].events
        /\ stateFile[1].ts < stateFile[Len(stateFile)].ts

\* C12 (normalized quarantine keys): every key of the quarantine map is
\* lowercase with no trailing dot, and no two keys are spellings of one name.
C12_NormalizedKeys ==
    /\ \A d \in DOMAIN quarFile : d = Normalized(d)
    /\ \A d, e \in DOMAIN quarFile : Normalized(d) = Normalized(e) => d = e

Scored == probe.fn = "compute_score" /\ probe.done

\* base + booster as the rational num/den, booster capped at 0.6
Blend(metrics, reasons) ==
    LET h == metrics.hits
        u == metrics.uniq
        t == metrics.hours
        H == h + score_hits_k
        U == u + score_uniq_k
        T == t + score_hours_k
        b == IF SumBoost(reasons) > 60 THEN 60 ELSE SumBoost(reasons)
    IN  [num |-> 40 * h * U * T + 30 * u * H * T + 30 * t * H * U + b * H * U * T,
         den |-> 100 * H * U * T]

\* C13 (saturation bound): for non-negative metrics and any reason list,
\* compute_score returns a value in [0,1], equal to
\* clamp(0.4*h/(h+kh) + 0.3*u/(u+ku) + 0.3*t/(t+kt) + booster, 0, 1).
C13_Saturation ==
    Scored =>
        LET r == Blend(probe.metrics, probe.reasons)
            s == probe.out
        IN  /\ s.den = r.den
            /\ s.den > 0
            /\ 0 <= s.num
            /\ s.num <= s.den
            /\ r.num >= r.den => s.num = s.den
            /\ r.num <= 0 => s.num = 0
            /\ (0 < r.num /\ r.num < r.den) => s.num = r.num

\* heavy traffic with four direct tags: the sum exceeds 1 and is clamped
C13_Witness ==
    /\ Scored
    /\ probe.metrics.hits = 200
    /\ Len(probe.reasons) = 4
    /\ Blend(probe.metrics, probe.reasons).num > Blend(probe.metrics, probe.reasons).den
    /\ IsOne(probe.out)

\* the direct tag of the same match category as a CNAME-based tag
DirectOf(tag) ==
    CASE tag[1] = "cname_substr" -> Tag("substr", <<"a","d","s">>)
      [] tag[1] = "cname_learn"  -> Tag("learn", <<"a","d","s">>)
      [] tag[1] = "cname_tld"    -> Tag("tld", <<>>)
      [] tag[1] = "cname_fam"    -> Tag("fam", tag[2])

CnameKinds == {"cname_substr", "cname_learn", "cname_tld", "cname_fam"}

\* C14 (CNAME tags weigh at least as much as direct tags): the score of a
\* domain carrying one CNAME-based tag is at least the score the same metrics
\* get with the direct tag of the same category, i.e. the booster increment
\* of cname_substr, cname_learn, cname_tld, cname_fam is >= that of substr,
\* learn, tld, fam; and the summed booster never exceeds 0.6.
C14_CnameWeighs ==
    Scored =>
        /\ (Len(probe.reasons) = 1 /\ probe.reasons[1][1] \in CnameKinds)
           => probe.out.num >= compute_score(probe.metrics,
                                             <<DirectOf(probe.reasons[1])>>).num
        /\ probe.out.num - Blend(probe.metrics, <<>>).num
              <= 60 * (probe.out.den \div 100)

\* C15 (record timestamps): after every cycle of any sequence of cycles,
\* every quarantine record has firstSeen <= lastSeen, in the file and in the
\* memory of a running cycle.
C15_FirstBeforeLast ==
    /\ \A d \in DOMAIN quarFile : quarFile[d].first_seen <= quarFile[d].last_seen
    /\ \A p \in Procs : \A d \in DOMAIN mem[p].quarantine :
          mem[p].quarantine[d].first_seen <= mem[p].quarantine[d].last_seen

\* a record re-seen in a later cycle: firstSeen < lastSeen, persisted
C15_Witness ==
    \E p \in Procs : \E d \in DOMAIN quarFile :
        /\ pc[p] = "export"
        /\ d \in mem[p].cands
        /\ d \in DOMAIN mem[p].loaded
        /\ quarFile[d].first_seen < quarFile[d].last_seen
        /\ quarFile[d].last_seen = mem[p].in.now

Resolved == probe.fn = "resolve_cname_chain" /\ probe.res.called

\* C16 (CNAME chain length bound): resolve_cname_chain(domain, maxDepth)
\* returns at most maxDepth hops, and the empty chain without a lookup when
\* maxDepth < 1, whether the chain is resolved, taken from the in-run cache
\* or taken from the persistent cache an earlier run wrote.
C16_ChainLength ==
    Resolved =>
        /\ probe.res.depth >= 1 => Len(probe.res.chain) <= probe.res.depth
        /\ probe.res.depth < 1 => (probe.res.chain = <<>> /\ ~probe.res.asked)

\* C17 (CNAME cache TTL): for maxDepth >= 1, an entry with expiresAt > now is
\* returned verbatim, with no lookup and the entry unchanged; an entry whose
\* expiresAt is in the past is never returned: the chain is resolved afresh
\* and the entry replaced with expiresAt = now + TTL.
C17_CacheTtl ==
    (Resolved /\ probe.res.depth >= 1) =>
        LET r == probe.res
            d == Normalized(r.domain)
        IN  d \in DOMAIN r.persist0 =>
              /\ r.persist0[d].until > r.now =>
                    /\ r.chain = r.persist0[d].chain
                    /\ ~r.asked
                    /\ probe.persist = r.persist0
              /\ r.persist0[d].until < r.now =>
                    /\ r.asked
                    /\ r.chain = Hops(r.dig, d, r.depth, <<>>)
                    /\ probe.persist[d] =
                          [chain |-> r.chain,
                           until |-> r.now + cname_cache_ttl_hours * SecondsPerHour]
                    /\ \A x \in DOMAIN r.persist0 \ {d} : probe.persist[x] = r.persist0[x]

\* 25 hours after the entry was written the name resolves differently: the
\* new chain is returned and stored
C17_Witness ==
    /\ Resolved
    /\ probe.res.depth >= 1
    /\ Normalized(probe.res.domain) \in DOMAIN probe.res.persist0
    /\ probe.res.persist0[Normalized(probe.res.domain)].until < probe.res.now
    /\ probe.res.persist0[Normalized(probe.res.domain)].chain # <<>>
    /\ probe.res.chain # probe.res.persist0[Normalized(probe.res.domain)].chain
    /\ probe.persist[Normalized(probe.res.domain)].chain = probe.res.chain

\* C18 (determinism): two invocations of classification and scoring on the
\* same domain with identical metrics, configuration, learned keywords,
\* families and CNAME answers give the identical verdict, the identical set
\* of reason tags (including which learn:<token> tag is reported) and the
\* identical score.
C18_Determinism ==
    (probe.fn = "classify" /\ Len(probe.outs) >= 2) =>
        \A i, j \in 1..Len(probe.outs) : probe.outs[i] = probe.outs[j]

\* no cycle is between its save of the quarantine file and its export
Exported == \A p \in Procs : pc[p] \notin {"save_s", "save_c", "export"}

\* C19 (review export): the export written at the end of a cycle holds
\* exactly one flattened record per domain still in quarantine after the
\* cycle's promotions and evictions, none for removed domains, ordered by
\* non-increasing score.
C19_ReviewExport ==
    Exported =>
        /\ Len(reviewFile) = Cardinality(DOMAIN quarFile)
        /\ \A i \in 1..Len(reviewFile) :
              /\ reviewFile[i].domain \in DOMAIN quarFile
              /\ reviewFile[i] = Flatten(reviewFile[i].domain, quarFile[reviewFile[i].domain])
        /\ \A d \in DOMAIN quarFile :
              Cardinality({i \in 1..Len(reviewFile) : reviewFile[i].domain = d}) = 1
        /\ \A i, j \in 1..Len(reviewFile) :
              i < j => ~ScoreGT(reviewFile[j].score, reviewFile[i].score)

\* two records both loaded from the file, where the lower score comes first,
\* are exported with the higher score first
C19_Witness ==
    /\ Exported
    /\ Len(reviewFile) = 2
    /\ reviewFile[1].domain = ads_xy
    /\ reviewFile[2].domain = ads_ok_cc
    /\ ScoreGT(reviewFile[1].score, reviewFile[2].score)
    /\ \A i \in 1..2 : reviewFile[i].first_seen < reviewFile[i].last_seen

\* the score this cycle's metrics and tags give: clamp(base + booster, 0, 1)
ScoreOfCycle(metrics, tags) ==
    LET r == Blend(metrics, CHOOSE f \in Perms(tags) : TRUE)
    IN  [num |-> IF r.num > r.den THEN r.den ELSE r.num, den |-> r.den]

\* C20 (candidate update rule): for a candidate of the cycle a missing record
\* is created with firstSeen = lastSeen = now; an existing record keeps its
\* firstSeen, gets lastSeen = now, and its score, reason and metrics are the
\* values computed in this cycle, whatever score was stored.
C20_CandidateUpdate ==
    \A p \in Procs : pc[p] \in AfterScan =>
        \A d \in mem[p].cands :
            LET r   == mem[p].qMid[d]
                now == mem[p].in.now
                m   == mem[p].in.counts[d]
            IN  /\ d \notin DOMAIN mem[p].loaded => r.first_seen = now
                /\ d \in DOMAIN mem[p].loaded => r.first_seen = mem[p].loaded[d].first_seen
                /\ r.last_seen = now
                /\ r.hits = m.hits /\ r.uniq = m.uniq /\ r.hours = m.hours
                /\ r.reason # {}
                /\ r.score = ScoreOfCycle(m, r.reason)

\* a stored record with score 1.0 is re-seen on light traffic 11 hours on:
\* firstSeen kept, lastSeen = now, the score drops to this cycle's value
C20_Witness ==
    \E p \in Procs : \E d \in mem[p].cands :
        /\ pc[p] \in AfterScan
        /\ d \in DOMAIN mem[p].loaded
        /\ IsOne(mem[p].loaded[d].score)
        /\ ~IsOne(mem[p].qMid[d].score)
        /\ mem[p].qMid[d].first_seen < mem[p].in.now
        /\ mem[p].qMid[d].last_seen = mem[p].in.now


\* a step writes one of the persistent state files
WritesStateFile ==
    \/ quarFile' # quarFile
    \/ cnameFile' # cnameFile
    \/ learnedFile' # learnedFile

\* positions of the saves at the end of main() (lines 584-586)
SavePositions == {"save_q", "save_s", "save_c"}

\* C21 (state files are written once at cycle end): every write to the
\* quarantine file, the CNAME cache or the learned-keyword artifact is made by
\* a cycle that has finished reading the state files, classification, scoring
\* and promotion evaluation.
C21_WritesAtCycleEnd ==
    [][WritesStateFile => \E p \in Procs : pc[p] \in SavePositions]_vars

Capped == probe.fn = "classify_top" /\ probe.done

\* the eligible domains without a match from the direct checks
Unmatched ==
    {d \in CapNames : ~substr_or_tld_suspicious(d, <<>>, build_reputation_families).sus}

\* the domains a chain was resolved for: the CNAME cache started empty
ResolvedNames == DOMAIN probe.persist

HasCnameTag(rlist) == \E i \in 1..Len(rlist) : rlist[i][1] \in CnameKinds

\* C22 (CNAME volume cap): a chain is resolved only for eligible domains
\* without a direct match, for min(top_n_cname, their number) of them, none of
\* which has fewer hits than one left out; a domain outside that set is not
\* resolved and carries no cname_* tag.
C22_CnameCap ==
    Capped =>
        /\ ResolvedNames \subseteq Unmatched
        /\ Cardinality(ResolvedNames) <= probe.topN
        /\ Cardinality(ResolvedNames) = Min(probe.topN, Cardinality(Unmatched))
        /\ \A r \in ResolvedNames : \A x \in Unmatched \ ResolvedNames :
              probe.counts[r].hits >= probe.counts[x].hits
        /\ \A d \in DOMAIN probe.flags :
              HasCnameTag(probe.flags[d]) => d \in ResolvedNames

\* top_n_cname = 1, three cloaked domains: only the busiest, which comes last
\* in the metrics, is resolved and tagged
C22_Witness ==
    /\ Capped
    /\ probe.topN = 1
    /\ Cardinality(Unmatched) = 3
    /\ \E r \in Unmatched :
          /\ ResolvedNames = {r}
          /\ probe.eligible[4] = r
          /\ \A x \in Unmatched \ {r} : probe.counts[x].hits < probe.counts[r].hits
          /\ r \in DOMAIN probe.flags
          /\ HasCnameTag(probe.flags[r])
          /\ DOMAIN probe.flags = {r, ads_xy}

ChainChecked == probe.fn = "cname_suspicious" /\ probe.done

\* C23 (CNAME chain allow short-circuit): when any hop of the checked chain
\* matches the allowlist, the CNAME step reports the domain as not suspicious
\* and gives it no cname_substr, cname_learn, cname_tld or cname_fam tag,
\* whatever the other hops match and wherever the allowed hop stands.
C23_ChainAllow ==
    ChainChecked =>
        ((\E i \in 1..Len(probe.chain) : domain_suffix_in_list(probe.chain[i], allowlist))
         => /\ ~probe.sus
            /\ ~HasCnameTag(probe.reasons))

Mined == probe.fn = "maybe_rebuild_learned_keywords" /\ probe.done

\* the rebuild is due: enabled and the artifact's age is not below the TTL
RebuildDue ==
    /\ probe.enabled
    /\ probe.now - probe.file.built_at >= learn_refresh_hours * SecondsPerHour

\* the dot-separated labels of the corpus domains
CorpusLabels ==
    UNION {{Split(probe.rows[j])[k] : k \in 1..Len(Split(probe.rows[j]))} :
              j \in 1..Len(probe.rows)}

\* the number of distinct second-level families a label occurs in
Support(t) ==
    Cardinality({ETld1(probe.rows[j]) :
                    j \in {i \in 1..Len(probe.rows) :
                             \E k \in 1..Len(Split(probe.rows[i])) :
                                 Split(probe.rows[i])[k] = t}})

Qualifies(t) ==
    /\ t \in CorpusLabels
    /\ Len(t) >= 3
    /\ t \notin learn_stopwords
    /\ Support(t) >= probe.min_sup

KeptKeywords == {probe.out.keywords[i] : i \in 1..Len(probe.out.keywords)}

\* C24 (learned keyword mining): after a rebuild every persisted keyword is a
\* label of a corpus domain, of length >= 3, not a stopword, with support in
\* at least minSupportFamilies families; at most maxKeywords are kept and no
\* excluded qualifying token has greater support than a kept one; when the
\* miner is disabled or the artifact is younger than the TTL nothing changes.
C24_KeywordMining ==
    Mined =>
        /\ ~RebuildDue => probe.out = probe.file
        /\ RebuildDue =>
              /\ probe.out.built_at = probe.now
              /\ \A t \in KeptKeywords : Qualifies(t)
              /\ Len(probe.out.keywords) <= probe.max_kw
              /\ Cardinality(KeptKeywords) = Len(probe.out.keywords)
              /\ \A t \in CorpusLabels \ KeptKeywords :
                    Qualifies(t) => \A k \in KeptKeywords : Support(t) <= Support(k)

\* maxKeywords = 1: a token with two families is kept and the token of the
\* first corpus row, qualifying with one family, is left out
C24_Witness ==
    /\ Mined
    /\ RebuildDue
    /\ probe.max_kw = 1
    /\ Len(probe.out.keywords) = 1
    /\ Support(probe.out.keywords[1]) = 2
    /\ \E t \in CorpusLabels \ KeptKeywords :
          /\ Qualifies(t)
          /\ Support(t) = 1
          /\ \E k \in 1..Len(Split(probe.rows[1])) : Split(probe.rows[1])[k] = t


\* the name the i-th lookup of the call asked for
LookedUp(i) ==
    IF i = 1 THEN Normalized(probe.res.domain) ELSE probe.res.chain[i - 1]

\* the call resolved afresh and one of its lookups raised
FreshFailure ==
    /\ Resolved
    /\ probe.res.depth >= 1
    /\ probe.res.asked
    /\ WalkFails(probe.res.dig, Normalized(probe.res.domain), probe.res.depth)

\* the call found an unexpired entry that a failed resolution had written
ServedAfterFailure ==
    /\ Resolved
    /\ probe.res.depth >= 1
    /\ Normalized(probe.res.domain) \in probe.res.failed0
    /\ Normalized(probe.res.domain) \in DOMAIN probe.res.persist0
    /\ probe.res.persist0[Normalized(probe.res.domain)].until > probe.res.now

\* C25 (CNAME lookup failure is not fatal and is cached): when a hop lookup
\* fails, resolve returns the hops collected before the failure and stores
\* that partial chain in the persistent cache with expiry now + TTL; until
\* that expiry every resolve of the domain, in this and in later runs,
\* returns the partial chain without a lookup.
C25_FailureCached ==
    /\ FreshFailure =>
          LET r == probe.res
              d == Normalized(r.domain)
              n == Len(r.chain)
          IN  /\ n < r.depth
              /\ \A i \in 1..n :
                    /\ DigFirstLine(r.dig, LookedUp(i)) # DigFails
                    /\ r.chain[i] = RStrip(DigFirstLine(r.dig, LookedUp(i)), ".")
              /\ DigFirstLine(r.dig, LookedUp(n + 1)) = DigFails
              /\ probe.persist[d] =
                    [chain |-> r.chain,
                     until |-> r.now + cname_cache_ttl_hours * SecondsPerHour]
              /\ d \in probe.failed
    /\ ServedAfterFailure =>
          /\ probe.res.chain = probe.res.persist0[Normalized(probe.res.domain)].chain
          /\ ~probe.res.asked
          /\ probe.persist = probe.res.persist0

\* a later run, one hour after the second lookup failed, gets the one-hop
\* partial chain from the cache although the name now resolves in two hops
C25_Witness ==
    /\ ServedAfterFailure
    /\ probe.runs = 2
    /\ probe.res.dig = DeepDns
    /\ probe.res.depth = 2
    /\ probe.res.chain = <<ads_xy>>
    /\ ~probe.res.asked
    /\ Hops(probe.res.dig, Normalized(probe.res.domain), probe.res.depth, <<>>)
          = <<ads_xy, t_b_io>>

C27_BlockedAtPromotion ==
    \A p \in Procs : pc[p] \in AfterPromote =>
        \A d \in Domains :
            (MeetsPromote(mem[p], d) /\ d \in mem[p].in.blockP)
            => /\ d \notin DOMAIN mem[p].quarantine
               /\ d \notin mem[p].called
               /\ ~HasEvent(mem[p].events, d)
               /\ pc[p] = "export" => d \notin DOMAIN quarFile

\* a candidate that passed the pre-filter is blocked by the operator before
\* the promotion loop of a live run: its stored record is dropped, unpromoted
C27_Witness ==
    \E p \in Procs : \E d \in Domains :
        /\ pc[p] = "export"
        /\ ~dry
        /\ MeetsPromote(mem[p], d)
        /\ d \notin mem[p].in.blockF
        /\ d \in mem[p].in.blockP
        /\ d \in DOMAIN mem[p].loaded
        /\ d \notin DOMAIN quarFile
        /\ d \notin mem[p].called
        /\ mem[p].events = <<>>

====
